---------------------------- MODULE Spec2Model ----------------------------
(***************************************************************************)
(* A model of TigerBridge's TSPro client (src/tiger_bridge.py) together    *)
(* with the handlers and the connect loop of src/cli_example.py.           *)
(*                                                                         *)
(* Text is a sequence of one-character strings, bytes are a sequence of    *)
(* integers.  A real number is held in tenths (125 is 12.5).               *)
(***************************************************************************)
EXTENDS Integers, Sequences, FiniteSets, TLC

VARIABLES
    sock_state,    \* OS state of self.__socket: "unconnected" | "connected"
    sockets,       \* number of socket objects created so far (self.__socket is the last)
    used_sockets,  \* the socket objects on which a connect call has been made
    last_connect,  \* the connect call that is about to return: its socket, its result
    threads,       \* number of reader threads started
    wire,          \* characters that arrived from the controller and are not yet consumed
    peer,          \* the controller's end: "open" | "closed" | "reset"
    delivered,     \* number of lines the controller has sent
    rpc,           \* position of the reader thread in __socket_read
    rexc,          \* the exception that ended the reader thread, "none" otherwise
    line,          \* the reader's local variable line
    eof_seen,      \* readline has returned at end-of-stream
    outcome,       \* how the loop iteration that just ended treated its line
    notices,       \* disconnection notifications delivered to the caller
    event_dict,    \* TSPro.__event_dict
    locked,        \* TSPro.__event_dict_mutex is held
    cpc,           \* position of the caller thread
    cop,           \* the hook call the caller thread is executing, and on which TSPro object
    cerr,          \* the exception the caller's last finished call raised, "none" otherwise
    last_set,      \* per event id, the callback of the last set_event_hook, "none" once removed
    calls,         \* the callbacks entered so far, with their arguments
    sent,          \* the socket.send calls made so far
    send_result    \* what the last socket.send call did

connVars == <<sock_state, sockets, used_sockets, last_connect, threads>>
netVars == <<wire, peer, delivered>>
readerVars == <<rpc, rexc, line, eof_seen, outcome>>
tableVars == <<event_dict, locked, last_set>>
callerVars == <<cpc, cop, cerr>>
logVars == <<notices, calls, sent, send_result>>

vars == <<connVars, netVars, readerVars, tableVars, callerVars, logVars>>

---------------------------------------------------------------------------
(* Bounds of the model *)

MaxLines == 2
MaxSends == 2

---------------------------------------------------------------------------
(* Characters and text *)

NL == "\n"
Digits == <<"0", "1", "2", "3", "4", "5", "6", "7", "8", "9">>
Lower == <<"a", "b", "c", "d", "e", "f", "g", "h", "i", "j", "k", "l", "m",
           "n", "o", "p", "q", "r", "s", "t", "u", "v", "w", "x", "y", "z">>
Whitespace == {" ", NL, "\t", "\r"}

Last(s) == s[Len(s)]

IndexOf(c, s) == CHOOSE i \in 1..Len(s) : s[i] = c
IsDigit(c) == \E i \in 1..Len(Digits) : Digits[i] = c
DigitValue(c) == IndexOf(c, Digits) - 1

delim_char == "|"

\* str.split(sep) for a one-character separator: the pieces between the
\* separators, empty pieces kept; a text without separator gives one piece.
RECURSIVE Split(_, _)
Split(s, sep) ==
    IF \A i \in 1..Len(s) : s[i] # sep
    THEN <<s>>
    ELSE LET k == CHOOSE i \in 1..Len(s) :
                      s[i] = sep /\ \A j \in 1..(i - 1) : s[j] # sep
         IN  <<SubSeq(s, 1, k - 1)>> \o Split(SubSeq(s, k + 1, Len(s)), sep)

parse_line(l) == Split(l, delim_char)

\* str.strip() as int() applies it: leading and trailing whitespace removed.
RECURSIVE LStrip(_)
LStrip(s) ==
    IF s # <<>> /\ s[1] \in Whitespace THEN LStrip(Tail(s)) ELSE s
RECURSIVE RStrip(_)
RStrip(s) ==
    IF s # <<>> /\ s[Len(s)] \in Whitespace
    THEN RStrip(SubSeq(s, 1, Len(s) - 1)) ELSE s
Strip(s) == RStrip(LStrip(s))

\* The digits of an int() literal after the optional sign: digits, with single
\* underscores allowed between digits.
IntBody(s) ==
    LET t == Strip(s)
    IN  IF t # <<>> /\ t[1] \in {"+", "-"} THEN Tail(t) ELSE t
IntNegative(s) == LET t == Strip(s) IN t # <<>> /\ t[1] = "-"

\* int(s) does not raise ValueError.
IsInt(s) ==
    LET b == IntBody(s)
    IN  /\ b # <<>>
        /\ \A i \in 1..Len(b) : IsDigit(b[i]) \/ b[i] = "_"
        /\ IsDigit(b[1]) /\ IsDigit(b[Len(b)])
        /\ \A i \in 1..(Len(b) - 1) : ~(b[i] = "_" /\ b[i + 1] = "_")

RECURSIVE DigitsValue(_)
DigitsValue(b) ==
    IF b = <<>> THEN 0
    ELSE IF b[Len(b)] = "_" THEN DigitsValue(SubSeq(b, 1, Len(b) - 1))
    ELSE 10 * DigitsValue(SubSeq(b, 1, Len(b) - 1)) + DigitValue(b[Len(b)])

\* int(s) for a text that int() accepts.
IntValue(s) ==
    IF IntNegative(s) THEN 0 - DigitsValue(IntBody(s)) ELSE DigitsValue(IntBody(s))

\* str(n) for a natural number.
RECURSIVE NatText(_)
NatText(n) ==
    IF n < 10 THEN <<Digits[n + 1]>>
    ELSE NatText(n \div 10) \o <<Digits[(n % 10) + 1]>>

\* str(x) for a float x given in tenths: sign, integer part, ".", one decimal.
FloatText(t) ==
    LET a == IF t < 0 THEN 0 - t ELSE t
    IN  (IF t < 0 THEN <<"-">> ELSE <<>>)
        \o NatText(a \div 10) \o <<".">> \o <<Digits[(a % 10) + 1]>>

\* str.encode(): the UTF-8 byte of each (ASCII) character.
Ord(c) ==
    CASE c = NL -> 10
      [] c = " " -> 32
      [] c = "+" -> 43
      [] c = "-" -> 45
      [] c = "." -> 46
      [] c = "_" -> 95
      [] c = "|" -> 124
      [] IsDigit(c) -> 48 + DigitValue(c)
      [] OTHER -> 96 + IndexOf(c, Lower)
Encode(s) == [i \in 1..Len(s) |-> Ord(s[i])]

\* str.join: the texts with sep between each two.
RECURSIVE Join(_, _)
Join(sep, parts) ==
    IF parts = <<>> THEN <<>>
    ELSE IF Len(parts) = 1 THEN parts[1]
    ELSE parts[1] \o <<sep>> \o Join(sep, Tail(parts))

\* Variant of format_message that leaves out the line terminator.
format_message_unterminated(texts) == Encode(Join(delim_char, texts))

\* __format_message, its arguments already converted by map(str, args).
format_message(texts) == Encode(Join(delim_char, texts) \o <<NL>>)

---------------------------------------------------------------------------
(* Protocol symbols *)

MOVE_FINISHED == 0
RECEIVED_SETTING == 1
EventIds == {MOVE_FINISHED, RECEIVED_SETTING}

MOVE_TO_POSITION == <<"m", "o", "v", "e", "_", "t", "o">>
GET_POSITION == <<"g", "e", "t", "_", "p", "o", "s", "i", "t", "i", "o", "n">>
STOP == <<"s", "t", "o", "p">>
CALIBRATE == <<"c", "a", "l", "i", "b", "r", "a", "t", "e">>
HOME == <<"h", "o", "m", "e">>

\* The handlers of cli_example.py that the model registers.
Callbacks == {"get_setting_handler", "move_finished_handler"}

\* A callback of the caller's that calls set_event_hook itself.
HookingCallbacks == {"rehook_handler"}

\* callable(cb), for what the handler table can hold
Callable(cb) == cb \in Callbacks \cup HookingCallbacks

\* The call cb(*args) binds its arguments: get_setting_handler(*arg) takes any
\* number, move_finished_handler() takes none (TypeError otherwise).
Accepts(cb, args) ==
    IF cb = "move_finished_handler" THEN args = <<>> ELSE TRUE

---------------------------------------------------------------------------
(* What the environment does: lines the controller sends, positions the    *)
(* caller passes.                                                          *)

LineABC == <<"0", "|", "a", "|", "b", "|", "c", NL>>
LineBare == <<"1", NL>>
LineGarbage == <<"a", "b", "c", "|", "x", NL>>
InboundLines == {LineABC, LineBare, LineGarbage}

Positions == {125, 0, 0 - 5}

---------------------------------------------------------------------------
(* The state after tsp = TSPro() *)

NoCall == [op |-> "none", id |-> 0, cb |-> "none", had |-> "none", inst |-> "none"]
NoConnect == [sock |-> 0, fresh |-> TRUE, ok |-> FALSE]

Init ==
    /\ sock_state = "unconnected"
    /\ sockets = 1
    /\ used_sockets = {}
    /\ last_connect = NoConnect
    /\ threads = 0
    /\ wire = <<>>
    /\ peer = "open"
    /\ delivered = 0
    /\ rpc = "none"
    /\ rexc = "none"
    /\ line = <<>>
    /\ eof_seen = FALSE
    /\ outcome = "none"
    /\ notices = 0
    /\ event_dict = [i \in {} |-> "none"]
    /\ locked = FALSE
    /\ cpc = "idle"
    /\ cop = NoCall
    /\ cerr = "none"
    /\ last_set = [i \in EventIds |-> "none"]
    /\ calls = <<>>
    /\ sent = <<>>
    /\ send_result = [accepted |-> 0, raised |-> FALSE]

---------------------------------------------------------------------------
(* connect, on the caller's thread *)

\* Variant of connect_results in which a connected socket accepts a second
\* connect, as a socket created anew for each call would.
connect_results_any(st) == {TRUE, FALSE}

\* The results socket.connect can have on a socket in state st: TRUE when it
\* returns, FALSE when it raises socket.error.  A connected socket refuses a
\* second connect (EISCONN); an unconnected one may be refused or time out.
connect_results(st) ==
    IF st = "connected" THEN {FALSE} ELSE {TRUE, FALSE}

\* lines 222-225 and 227-228: connect self.__socket and start the thread, or
\* catch socket.error
Connect ==
    /\ cpc = "idle"
    /\ \E ok \in connect_results(sock_state) :
          /\ last_connect' = [sock |-> sockets,
                              fresh |-> sockets \notin used_sockets,
                              ok |-> ok]
          /\ IF ok
             THEN /\ sock_state' = "connected"
                  /\ threads' = threads + 1
                  /\ rpc' = "read"
             ELSE UNCHANGED <<sock_state, threads, rpc>>
    /\ used_sockets' = used_sockets \cup {sockets}
    /\ cpc' = "connect"
    /\ UNCHANGED <<sockets, netVars, rexc, line, eof_seen, outcome, tableVars,
                   cop, cerr, logVars>>

\* lines 226 and 229: return True, return False
ConnectReturn ==
    /\ cpc = "connect"
    /\ cpc' = "idle"
    /\ last_connect' = NoConnect
    /\ UNCHANGED <<sock_state, sockets, used_sockets, threads, netVars,
                   readerVars, tableVars, cop, cerr, logVars>>

---------------------------------------------------------------------------
(* The controller *)

ControllerSend ==
    /\ sock_state = "connected"
    /\ peer = "open"
    /\ delivered < MaxLines
    /\ \E l \in InboundLines : wire' = wire \o l
    /\ delivered' = delivered + 1
    /\ UNCHANGED <<connVars, peer, readerVars, tableVars, callerVars, logVars>>

ControllerClose ==
    /\ sock_state = "connected"
    /\ peer = "open"
    /\ peer' = "closed"
    /\ UNCHANGED <<connVars, wire, delivered, readerVars, tableVars,
                   callerVars, logVars>>

ControllerReset ==
    /\ sock_state = "connected"
    /\ peer = "open"
    /\ peer' = "reset"
    /\ UNCHANGED <<connVars, wire, delivered, readerVars, tableVars,
                   callerVars, logVars>>

---------------------------------------------------------------------------
(* __socket_read, the reader thread *)

HasNewline(w) == \E i \in 1..Len(w) : w[i] = NL
FirstNewline(w) ==
    CHOOSE i \in 1..Len(w) : w[i] = NL /\ \A j \in 1..(i - 1) : w[j] # NL

\* How many characters of the arrived text w a makefile().readline() call may
\* take from the socket: the file object reads what has arrived until it holds
\* a line terminator, returns the first line, and is then discarded with
\* whatever else it had read.
readline_consumed(w) == FirstNewline(w)..Len(w)

\* line 127, a complete line has arrived
ReaderReadLine ==
    /\ rpc = "read"
    /\ HasNewline(wire)
    /\ \E n \in readline_consumed(wire) :
          /\ line' = SubSeq(wire, 1, FirstNewline(wire))
          /\ wire' = SubSeq(wire, n + 1, Len(wire))
    /\ rpc' = "parse"
    /\ outcome' = "none"
    /\ UNCHANGED <<connVars, peer, delivered, rexc, eof_seen, tableVars,
                   callerVars, logVars>>

\* line 127, the peer has closed: readline returns what is left, "" from then on
ReaderReadEof ==
    /\ rpc = "read"
    /\ peer = "closed"
    /\ ~HasNewline(wire)
    /\ line' = wire
    /\ wire' = <<>>
    /\ eof_seen' = TRUE
    /\ rpc' = "parse"
    /\ outcome' = "none"
    /\ UNCHANGED <<connVars, peer, delivered, rexc, tableVars, callerVars,
                   logVars>>

\* line 127, the connection was reset: readline raises, nothing catches it
ReaderReadError ==
    /\ rpc = "read"
    /\ peer = "reset"
    /\ rpc' = "dead"
    /\ rexc' = "OSError"
    /\ outcome' = "none"
    /\ UNCHANGED <<connVars, netVars, line, eof_seen, tableVars, callerVars,
                   logVars>>

segments == parse_line(line)
event_id == IntValue(segments[1])
\* segments[1:]
arguments == Tail(segments)

\* Variant of ReaderParse without the except clause: ValueError ends the thread.
ReaderParseUncaught ==
    /\ rpc = "parse"
    /\ IF IsInt(segments[1])
       THEN rpc' = "check" /\ rexc' = rexc
       ELSE rpc' = "dead" /\ rexc' = "ValueError"
    /\ UNCHANGED <<connVars, netVars, line, eof_seen, outcome, tableVars,
                   callerVars, logVars>>

\* lines 129-134: split, int(segments[0]); ValueError continues the loop
ReaderParse ==
    /\ rpc = "parse"
    /\ IF IsInt(segments[1])
       THEN rpc' = "check" /\ line' = line /\ outcome' = outcome
       ELSE rpc' = "read" /\ line' = <<>> /\ outcome' = "invalid"
    /\ UNCHANGED <<connVars, netVars, rexc, eof_seen, tableVars, callerVars,
                   logVars>>

\* Variant of ReaderCheckIn that looks the callback up without the membership
\* test.
ReaderCheckInUnguarded ==
    /\ rpc = "check"
    /\ rpc' = "callable"
    /\ UNCHANGED <<connVars, netVars, rexc, line, eof_seen, outcome, tableVars,
                   callerVars, logVars>>

\* line 137, event_id in self.__event_dict
ReaderCheckIn ==
    /\ rpc = "check"
    /\ IF event_id \in DOMAIN event_dict
       THEN rpc' = "callable" /\ line' = line /\ outcome' = outcome
       ELSE rpc' = "read" /\ line' = <<>> /\ outcome' = "unhooked"
    /\ UNCHANGED <<connVars, netVars, rexc, eof_seen, tableVars, callerVars,
                   logVars>>

\* line 137, callable(self.__event_dict[event_id]): a second lookup, not locked
ReaderCheckCallable ==
    /\ rpc = "callable"
    /\ IF event_id \notin DOMAIN event_dict
       THEN rpc' = "dead" /\ rexc' = "KeyError" /\ line' = line
            /\ outcome' = outcome
       ELSE IF Callable(event_dict[event_id])
       THEN rpc' = "acquire" /\ rexc' = rexc /\ line' = line
            /\ outcome' = outcome
       ELSE rpc' = "read" /\ rexc' = rexc /\ line' = <<>>
            /\ outcome' = "unhooked"
    /\ UNCHANGED <<connVars, netVars, eof_seen, tableVars, callerVars, logVars>>

\* line 139, and line 150 when a callback running on this thread has called
\* set_event_hook: threading.Lock.acquire waits until the mutex is free,
\* whichever thread holds it
ReaderAcquire ==
    /\ rpc \in {"acquire", "hook_acquire"}
    /\ ~locked
    /\ locked' = TRUE
    /\ rpc' = IF rpc = "acquire" THEN "invoke" ELSE "hook_mutate"
    /\ UNCHANGED <<connVars, netVars, rexc, line, eof_seen, outcome,
                   event_dict, last_set, callerVars, logVars>>

\* Variant of ReaderInvoke that starts the callback on a thread of its own and
\* goes on without waiting for it.
ReaderInvokeDetached ==
    /\ rpc = "invoke"
    /\ IF event_id \notin DOMAIN event_dict
       THEN rpc' = "dead" /\ rexc' = "KeyError" /\ calls' = calls
       ELSE /\ rpc' = "release"
            /\ rexc' = rexc
            /\ calls' = Append(calls,
                   [id |-> event_id, cb |-> event_dict[event_id],
                    args |-> arguments, line |-> line, done |-> FALSE])
    /\ UNCHANGED <<connVars, netVars, line, eof_seen, outcome, tableVars,
                   callerVars, notices, sent, send_result>>

\* line 140: a third lookup, then the call; an exception leaves the loop and
\* the thread with the mutex held
ReaderInvoke ==
    /\ rpc = "invoke"
    /\ IF event_id \notin DOMAIN event_dict
       THEN rpc' = "dead" /\ rexc' = "KeyError" /\ calls' = calls
       ELSE IF ~Accepts(event_dict[event_id], arguments)
       THEN rpc' = "dead" /\ rexc' = "TypeError" /\ calls' = calls
       ELSE /\ rpc' = "running"
            /\ rexc' = rexc
            /\ calls' = Append(calls,
                   [id |-> event_id, cb |-> event_dict[event_id],
                    args |-> arguments, line |-> line, done |-> FALSE])
    /\ UNCHANGED <<connVars, netVars, line, eof_seen, outcome, tableVars,
                   callerVars, notices, sent, send_result>>

\* line 140, the callback is one that calls set_event_hook: the call is made
\* on the reader's thread and comes to line 150
ReaderCallbackHook ==
    /\ rpc = "running"
    /\ Last(calls).cb \in HookingCallbacks
    /\ rpc' = "hook_acquire"
    /\ UNCHANGED <<connVars, netVars, rexc, line, eof_seen, outcome,
                   tableVars, callerVars, logVars>>

\* line 140, the callback returns
ReaderReturn ==
    /\ rpc = "running"
    /\ Last(calls).cb \in Callbacks
    /\ rpc' = "release"
    /\ calls' = [calls EXCEPT ![Len(calls)].done = TRUE]
    /\ UNCHANGED <<connVars, netVars, rexc, line, eof_seen, outcome,
                   tableVars, callerVars, notices, sent, send_result>>

\* line 141
ReaderRelease ==
    /\ rpc = "release"
    /\ locked' = FALSE
    /\ rpc' = "read"
    /\ line' = <<>>
    /\ outcome' = "returned"
    /\ UNCHANGED <<connVars, netVars, rexc, eof_seen, event_dict, last_set,
                   callerVars, logVars>>

---------------------------------------------------------------------------
(* set_event_hook and remove_event_hook, on the caller's thread *)

\* Variant of dict_set that keeps the value of a key that is present
\* (dict.setdefault).
dict_set_keep(d, id, cb) ==
    [i \in DOMAIN d \cup {id} |-> IF i \in DOMAIN d THEN d[i] ELSE cb]

\* self.__event_dict[event_id] = callback
dict_set(d, id, cb) ==
    [i \in DOMAIN d \cup {id} |-> IF i = id THEN cb ELSE d[i]]

\* del self.__event_dict[event_id], for a key that is present
dict_del(d, id) == [i \in DOMAIN d \ {id} |-> d[i]]

\* dict.get(id): the value of a key, "none" for an absent key
dict_get(d, id) == IF id \in DOMAIN d THEN d[id] ELSE "none"

\* self.__event_dict as a TSPro object resolves it: the class body binds the
\* one dict, and no method assigns the attribute on the instance
event_dict_of(inst) == event_dict

CallSetEventHook ==
    /\ cpc = "idle"
    /\ \E id \in EventIds, cb \in Callbacks :
          cop' = [op |-> "set", id |-> id, cb |-> cb, had |-> "none",
                  inst |-> "tsp"]
    /\ cpc' = "acquire"
    /\ cerr' = "none"
    /\ UNCHANGED <<connVars, netVars, readerVars, tableVars, logVars>>

CallRemoveEventHook ==
    /\ cpc = "idle"
    /\ \E id \in EventIds :
          cop' = [op |-> "remove", id |-> id, cb |-> "none", had |-> "none",
                  inst |-> "tsp"]
    /\ cpc' = "acquire"
    /\ cerr' = "none"
    /\ UNCHANGED <<connVars, netVars, readerVars, tableVars, logVars>>

\* set_event_hook on a second TSPro object, one that is never connected
CallSetEventHookOther ==
    /\ cpc = "idle"
    /\ \E id \in EventIds, cb \in Callbacks :
          cop' = [op |-> "set", id |-> id, cb |-> cb, had |-> "none",
                  inst |-> "other"]
    /\ cpc' = "acquire"
    /\ cerr' = "none"
    /\ UNCHANGED <<connVars, netVars, readerVars, tableVars, logVars>>

\* remove_event_hook on the second TSPro object
CallRemoveEventHookOther ==
    /\ cpc = "idle"
    /\ \E id \in EventIds :
          cop' = [op |-> "remove", id |-> id, cb |-> "none", had |-> "none",
                  inst |-> "other"]
    /\ cpc' = "acquire"
    /\ cerr' = "none"
    /\ UNCHANGED <<connVars, netVars, readerVars, tableVars, logVars>>

\* set_event_hook with a callback that calls set_event_hook
CallSetHookingCallback ==
    /\ cpc = "idle"
    /\ \E id \in EventIds, cb \in HookingCallbacks :
          cop' = [op |-> "set", id |-> id, cb |-> cb, had |-> "none",
                  inst |-> "tsp"]
    /\ cpc' = "acquire"
    /\ cerr' = "none"
    /\ UNCHANGED <<connVars, netVars, readerVars, tableVars, logVars>>

\* lines 150 and 161
CallerAcquire ==
    /\ cpc = "acquire"
    /\ ~locked
    /\ locked' = TRUE
    /\ cpc' = "mutate"
    /\ UNCHANGED <<connVars, netVars, readerVars, event_dict, last_set, cop,
                   cerr, logVars>>

\* line 151; cop.had keeps what the assignment overwrote
CallerSet ==
    /\ cpc = "mutate"
    /\ cop.op = "set"
    /\ event_dict' = dict_set(event_dict, cop.id, cop.cb)
    /\ last_set' = [last_set EXCEPT ![cop.id] = cop.cb]
    /\ cop' = [cop EXCEPT !.had = dict_get(event_dict, cop.id)]
    /\ cpc' = "release"
    /\ UNCHANGED <<connVars, netVars, readerVars, locked, cerr, logVars>>

\* line 162: del raises KeyError for an absent key, and the call ends there
CallerDel ==
    /\ cpc = "mutate"
    /\ cop.op = "remove"
    /\ IF cop.id \in DOMAIN event_dict
       THEN /\ event_dict' = dict_del(event_dict, cop.id)
            /\ last_set' = [last_set EXCEPT ![cop.id] = "none"]
            /\ cop' = [cop EXCEPT !.had = event_dict[cop.id]]
            /\ cpc' = "release"
            /\ cerr' = cerr
       ELSE /\ cpc' = "idle"
            /\ cerr' = "KeyError"
            /\ cop' = NoCall
            /\ UNCHANGED <<event_dict, last_set>>
    /\ UNCHANGED <<connVars, netVars, readerVars, locked, logVars>>

\* lines 152 and 163
CallerRelease ==
    /\ cpc = "release"
    /\ locked' = FALSE
    /\ cpc' = "idle"
    /\ cop' = NoCall
    /\ UNCHANGED <<connVars, netVars, readerVars, event_dict, last_set, cerr,
                   logVars>>

---------------------------------------------------------------------------
(* request_*, on the caller's thread *)

\* str(x) as map(str, args) applies it: a text stays as it is (a StrEnum
\* member gives its value), a float is formatted.
str(x) == IF x.kind = "float" THEN FloatText(x.v) ELSE x.v
Text(t) == [kind |-> "str", v |-> t]
Float(t) == [kind |-> "float", v |-> t]

\* What self.__socket.send(message) can do: raise socket.error, or return the
\* number of bytes the socket took (the code drops that number).
send_results(st, p, message) ==
    IF st # "connected"
    THEN {[accepted |-> 0, raised |-> TRUE]}
    ELSE {[accepted |-> n, raised |-> FALSE] : n \in 1..Len(message)}
         \cup (IF p = "open" THEN {} ELSE {[accepted |-> 0, raised |-> TRUE]})

\* Variant of send_formatted_message whose except clause passes instead of
\* raising again.
send_formatted_message_quiet(op, arg, args) ==
    LET message == format_message([i \in 1..Len(args) |-> str(args[i])])
    IN  \E r \in send_results(sock_state, peer, message) :
           /\ sent' = Append(sent, [op |-> op, arg |-> arg, message |-> message])
           /\ send_result' = r
           /\ cerr' = "none"

\* __send_formatted_message(*args): one send call; socket.error (OSError) is
\* raised again and reaches the caller of request_*
send_formatted_message(op, arg, args) ==
    LET message == format_message([i \in 1..Len(args) |-> str(args[i])])
    IN  \E r \in send_results(sock_state, peer, message) :
           /\ sent' = Append(sent, [op |-> op, arg |-> arg, message |-> message])
           /\ send_result' = r
           /\ cerr' = IF r.raised THEN "OSError" ELSE "none"

\* lines 172-174: position = str(position) before the call
RequestMoveToPosition ==
    /\ cpc = "idle"
    /\ Len(sent) < MaxSends
    /\ \E position \in Positions :
          send_formatted_message("move_to_position", position,
              <<Text(MOVE_TO_POSITION), Text(str(Float(position)))>>)
    /\ UNCHANGED <<connVars, netVars, readerVars, tableVars, cpc, cop,
                   notices, calls>>

RequestStop ==
    /\ cpc = "idle"
    /\ Len(sent) < MaxSends
    /\ send_formatted_message("stop", 0, <<Text(STOP)>>)
    /\ UNCHANGED <<connVars, netVars, readerVars, tableVars, cpc, cop,
                   notices, calls>>

RequestCurrentPosition ==
    /\ cpc = "idle"
    /\ Len(sent) < MaxSends
    /\ send_formatted_message("current_position", 0, <<Text(GET_POSITION)>>)
    /\ UNCHANGED <<connVars, netVars, readerVars, tableVars, cpc, cop,
                   notices, calls>>

\* lines 202-203: the float itself is passed on
RequestCalibrate ==
    /\ cpc = "idle"
    /\ Len(sent) < MaxSends
    /\ \E position \in Positions :
          send_formatted_message("calibrate", position,
              <<Text(CALIBRATE), Float(position)>>)
    /\ UNCHANGED <<connVars, netVars, readerVars, tableVars, cpc, cop,
                   notices, calls>>

RequestHome ==
    /\ cpc = "idle"
    /\ Len(sent) < MaxSends
    /\ send_formatted_message("home", 0, <<Text(HOME)>>)
    /\ UNCHANGED <<connVars, netVars, readerVars, tableVars, cpc, cop,
                   notices, calls>>

---------------------------------------------------------------------------
(* parse_command of cli_example.py, the two commands whose request the     *)
(* client does not define                                                  *)

\* The public methods of class TSPro.
Methods == {"set_event_hook", "remove_event_hook", "request_move_to_position",
            "request_stop", "request_current_position", "request_calibrate",
            "request_home", "connect"}

\* cli_example.py line 92, tsp.request_setting(setting_name): the attribute
\* lookup on the TSPro object raises AttributeError before anything is sent
CliRequestSetting ==
    /\ cpc = "idle"
    /\ "request_setting" \notin Methods
    /\ cerr' = "AttributeError"
    /\ UNCHANGED <<connVars, netVars, readerVars, tableVars, cpc, cop, logVars>>

\* cli_example.py line 94, tsp.request_cycle_tool()
CliRequestCycleTool ==
    /\ cpc = "idle"
    /\ "request_cycle_tool" \notin Methods
    /\ cerr' = "AttributeError"
    /\ UNCHANGED <<connVars, netVars, readerVars, tableVars, cpc, cop, logVars>>

---------------------------------------------------------------------------
(* Specifications *)

Reader ==
    \/ ReaderReadLine \/ ReaderReadEof \/ ReaderReadError \/ ReaderParse
    \/ ReaderCheckIn \/ ReaderCheckCallable \/ ReaderAcquire \/ ReaderInvoke
    \/ ReaderReturn \/ ReaderRelease

Hooks ==
    \/ CallSetEventHook \/ CallRemoveEventHook \/ CallerAcquire \/ CallerSet
    \/ CallerDel \/ CallerRelease

Controller == ControllerSend \/ ControllerClose \/ ControllerReset

Requests ==
    \/ RequestMoveToPosition \/ RequestStop \/ RequestCurrentPosition
    \/ RequestCalibrate \/ RequestHome

CliRequests == CliRequestSetting \/ CliRequestCycleTool

\* The client with its reader thread, the caller registering and removing
\* hooks, and the controller.
Next == Connect \/ ConnectReturn \/ Reader \/ Hooks \/ Controller

Spec == Init /\ [][Next]_vars

\* The caller connects and sends requests; the controller may drop the line.
NextSend ==
    Connect \/ ConnectReturn \/ Requests \/ CliRequests \/ ControllerReset

SpecSend == Init /\ [][NextSend]_vars

\* As Spec, with hook calls on a second TSPro object as well.
NextShared == Next \/ CallSetEventHookOther \/ CallRemoveEventHookOther

SpecShared == Init /\ [][NextShared]_vars

\* As Spec, with a callback that calls set_event_hook among those registered.
NextHooking == Next \/ CallSetHookingCallback \/ ReaderCallbackHook

SpecHooking == Init /\ [][NextHooking]_vars

---------------------------------------------------------------------------
(* Properties *)

\* C1: every line "<id>|a|b|c\n" that the reader dispatches to a registered
\* callback enters that callback with exactly the arguments "a", "b", "c",
\* the line terminator being part of none of them.
C1_ArgumentsAreABC ==
    \A i \in 1..Len(calls) :
        calls[i].line = LineABC =>
            calls[i].args = << <<"a">>, <<"b">>, <<"c">> >>

RequestVerb(op) ==
    CASE op = "move_to_position" -> MOVE_TO_POSITION
      [] op = "stop" -> STOP
      [] op = "current_position" -> GET_POSITION
      [] op = "calibrate" -> CALIBRATE
      [] op = "home" -> HOME
RequestHasPosition(op) == op \in {"move_to_position", "calibrate"}
ExpectedMessage(op, arg) ==
    Encode(RequestVerb(op))
    \o (IF RequestHasPosition(op) THEN <<124>> \o Encode(FloatText(arg)) ELSE <<>>)
    \o <<10>>
C2_MessagesWellFormed ==
    \A i \in 1..Len(sent) :
        /\ sent[i].message = ExpectedMessage(sent[i].op, sent[i].arg)
        /\ sent[i].op = "move_to_position" /\ sent[i].arg = 125 =>
              sent[i].message =
                  <<109, 111, 118, 101, 95, 116, 111, 124, 49, 50, 46, 53, 10>>
        /\ sent[i].op = "stop" => sent[i].message = <<115, 116, 111, 112, 10>>
C2_OneMessagePerRequest ==
    send_result' # send_result \/ sent' # sent =>
        /\ Len(sent') = Len(sent) + 1
        /\ SubSeq(sent', 1, Len(sent)) = sent
\* C2: the bytes of every message handed to the socket are the verb and the
\* position (when the request has one) as text, joined by "|" (124) and
\* followed by one "\n" (10); move-to 12.5 gives "move_to|12.5\n" and stop
\* gives "stop\n"; every request hands one message to the socket.
C2_RequestBytes == [] C2_MessagesWellFormed /\ [][C2_OneMessagePerRequest]_vars
C2_Witness ==
    /\ Len(sent) = 2
    /\ sent[1].op = "move_to_position" /\ sent[1].arg = 125
    /\ sent[2].op = "stop"
    /\ ~send_result.raised

\* C3: once a read has returned end-of-stream the reader does not wait for
\* another line, and a reader that a read error has ended has delivered
\* exactly one disconnection notification.
C3_DisconnectEndsReader ==
    /\ ~(eof_seen /\ rpc = "read")
    /\ (rpc = "dead" /\ rexc = "OSError" => notices = 1)

\* C4: whatever set_event_hook / remove_event_hook calls interleave with the
\* reader's dispatch, the reader keeps running: no lookup of the handler
\* table ends the reader thread.
C4_ReaderSurvivesHookCalls == ~(rpc = "dead" /\ rexc = "KeyError")

\* C5: remove_event_hook for an id without callback raises nothing to the
\* caller and leaves the mutex free for later calls.
C5_RemoveAbsentDoesNotFail ==
    /\ cerr = "none"
    /\ (cpc = "idle" /\ rpc \notin {"invoke", "running", "release", "dead"}
           => ~locked)

C6_NoCallForInvalidLine ==
    \A i \in 1..Len(calls) : IsInt(parse_line(calls[i].line)[1])
C6_InvalidLineStep ==
    rpc = "parse" /\ ~IsInt(parse_line(line)[1]) /\ rpc' # rpc =>
        /\ rpc' = "read"
        /\ UNCHANGED <<calls, rexc, cerr, event_dict, locked>>
\* C6: a line whose first segment int() rejects enters no callback, ends no
\* thread and takes the reader back to the top of its loop, where it reads
\* the next line.
C6_InvalidLineSkipped ==
    [] C6_NoCallForInvalidLine /\ [][C6_InvalidLineStep]_vars
C6_Witness ==
    /\ rpc = "read" /\ outcome = "invalid" /\ rexc = "none"
    /\ ~eof_seen
    /\ HasNewline(wire)

C7_UnhookedLineStep ==
    rpc = "check" /\ event_id \notin DOMAIN event_dict /\ rpc' # rpc =>
        /\ rpc' = "read"
        /\ UNCHANGED <<calls, rexc, cerr, event_dict, locked>>
\* C7: a line with an integer event id that the handler table does not hold
\* enters no callback, raises nothing in the reader or to the caller, leaves
\* the table as it is and takes the reader back to the top of its loop.
C7_UnhookedLineDropped == [][C7_UnhookedLineStep]_vars
C7_Witness ==
    /\ rpc = "read" /\ outcome = "unhooked" /\ rexc = "none" /\ cerr = "none"
    /\ HasNewline(wire)

C8_TableHoldsLastSet ==
    \A id \in EventIds : dict_get(event_dict, id) = last_set[id]
C8_DispatchStep ==
    Len(calls') > Len(calls) =>
        Last(calls').cb = last_set[Last(calls').id]
\* C8: the handler table holds, for every event id, exactly the callback of
\* the last set_event_hook call for it (none once removed), and a dispatched
\* line enters that callback and no earlier one.
C8_SetReplaces == [] C8_TableHoldsLastSet /\ [][C8_DispatchStep]_vars
C8_Witness ==
    /\ cpc = "release" /\ cop.op = "set"
    /\ cop.had \in Callbacks /\ cop.had # cop.cb
    /\ event_dict[cop.id] = cop.cb
    /\ \E i \in 1..Len(calls) : calls[i].id = cop.id /\ calls[i].cb = cop.had

C9_AtMostOneReader == threads <= 1
C9_ConnectStep ==
    cpc = "idle" /\ cpc' = "connect" =>
        IF last_connect'.ok THEN threads' = threads + 1 ELSE threads' = threads
\* C9: a connect call returns success exactly when it has started a reader
\* thread, one thread, and no sequence of connect calls starts a second one.
C9_OneReaderPerClient == [] C9_AtMostOneReader /\ [][C9_ConnectStep]_vars
C9_Witness ==
    /\ cpc = "connect" /\ ~last_connect.ok
    /\ threads = 1 /\ sock_state = "connected"

\* C10: a failed connect starts no reader and leaves the client not
\* connected, and every connect call works on a socket that no earlier
\* connect call has used.
C10_FreshSocketPerAttempt ==
    cpc = "connect" =>
        /\ last_connect.fresh
        /\ (~last_connect.ok /\ threads = 0 =>
               sock_state = "unconnected" /\ rpc = "none")

C11_SendFailureStep ==
    Len(sent') > Len(sent) /\ send_result'.raised =>
        /\ cerr' = "OSError"
        /\ sent' = Append(sent, Last(sent'))
\* C11: a request_* call whose socket.send raises ends with that error
\* (OSError) raised to its caller, and has made exactly one send call for its
\* message: nothing is sent again.
C11_SendErrorReachesCaller == [][C11_SendFailureStep]_vars
C11_Witness ==
    /\ sock_state = "connected" /\ peer = "reset"
    /\ Len(sent) = 1
    /\ send_result.raised /\ cerr = "OSError"

\* C12: the client offers a get-setting request and a cycle-tool request, as
\* the example's get_setting and cycle_tool commands use them: the call
\* hands "get_setting|<name>\n" or "cycle_tool\n" to the socket instead of
\* ending in AttributeError.
C12_SettingAndCycleToolOffered == cerr # "AttributeError"

\* C13: the mutex is not held while a callback runs, so that a
\* set_event_hook or remove_event_hook call made meanwhile can take it.
C13_MutexFreeDuringCallback == rpc = "running" => ~locked

C14_ReadStep ==
    rpc = "read" /\ rpc' = "parse" => line' \o wire' = wire
\* C14: a read takes the first line of what has arrived and leaves every
\* character after the first terminator for the reads that follow.
C14_NothingDropped == [][C14_ReadStep]_vars

\* C15: a request_* call that raises nothing has handed every byte of its
\* message to the socket.
C15_WholeMessageAccepted ==
    Len(sent) > 0 /\ ~send_result.raised =>
        send_result.accepted = Len(Last(sent).message)

C16_OtherInstanceStep ==
    cpc = "mutate" /\ cop.inst = "other" =>
        event_dict_of("tsp")' = event_dict_of("tsp")
\* C16: a set_event_hook or remove_event_hook call on one TSPro object
\* leaves the handler table of every other TSPro object as it is.
C16_TablePerInstance == [][C16_OtherInstanceStep]_vars

\* C17: a line whose number of arguments the registered callback does not
\* accept ends no thread: no TypeError leaves the reader's loop.
C17_ArityMismatchDiscarded == ~(rpc = "dead" /\ rexc = "TypeError")

\* C18: the mutex is held only by a thread that is between its acquire and
\* its release; a call or a thread that has ended holds it no longer.
C18_MutexReleasedOnEveryPath ==
    locked =>
        \/ cpc \in {"mutate", "release"}
        \/ rpc \in {"invoke", "running", "release", "hook_acquire", "hook_mutate"}

\* C19: a callback that calls set_event_hook finds the mutex free at the
\* call's acquire, so the call and the callback return.
C19_CallbackCanSetHook == rpc = "hook_acquire" => ~locked

InCallback == rpc \in {"running", "hook_acquire", "hook_mutate"}
C20_OneCallbackRunning ==
    \A i \in 1..Len(calls) :
        ~calls[i].done => i = Len(calls) /\ InCallback
C20_CallStep ==
    Len(calls') > Len(calls) =>
        /\ calls' = Append(calls, Last(calls'))
        /\ Last(calls').line = line
        /\ \A i \in 1..Len(calls) : calls[i].done
C20_NextReadStep ==
    rpc = "read" /\ rpc' = "parse" => \A i \in 1..Len(calls) : calls[i].done
\* C20: at most one callback is executing at any time, and while it executes
\* the reader is inside it; a callback is entered for the line the reader
\* has just read, after every earlier callback has returned, and the reader
\* reads its next line only then.
C20_CallbacksOneAtATime ==
    [] C20_OneCallbackRunning /\ [][C20_CallStep /\ C20_NextReadStep]_vars
C20_Witness ==
    /\ Len(calls) = 2
    /\ calls[1].done /\ calls[2].done
    /\ calls[1].line # calls[2].line
    /\ rpc = "read"

=============================================================================
